---- MODULE Spec2Model ----
(***************************************************************************)
(* Model of bin/remote_check.py (vmchecker): main() copies a homework      *)
(* config file to the remote tester with scp and then invokes the remote   *)
(* notifier with ssh.  One action per statement group of main(); the       *)
(* inputs (argv, the files on disk, the exit status of the child           *)
(* processes) are drawn from small sets.                                   *)
(*                                                                         *)
(* Python strings that the program formats or joins are sequences of       *)
(* one-character strings, so that '%s@%s:%s' and os.path.join are computed *)
(* character by character.  A Python value is a record [t, s]: t = "None"  *)
(* for None, t = "str" for a string with characters s.                     *)
(***************************************************************************)
EXTENDS Integers, Sequences, FiniteSets, TLC

VARIABLES argv, fs, globalIni,
          pc, config_file, homework, config, job,
          remote_ip, remote_queue, remote_user, remote_notifier, return_code,
          reads, lookups, calls, stdout, stderr, exitCode

inputs == <<argv, fs, globalIni>>
locals == <<config_file, homework, config, job,
            remote_ip, remote_queue, remote_user, remote_notifier, return_code>>
remotes == <<remote_ip, remote_queue, remote_user, remote_notifier>>
vars == <<argv, fs, globalIni,
          pc, config_file, homework, config, job,
          remote_ip, remote_queue, remote_user, remote_notifier, return_code,
          reads, lookups, calls, stdout, stderr, exitCode>>

----------------------------------------------------------------------------
(* Bounds and input sets *)

\* largest number of command-line arguments after the program name
MaxArgs == 2

ProgName == "remote_check.py"
Paths == {"hw.ini", "alt.ini"}
Sections == {"hw1"}
Jobs == {"hw1", "hw2"}
Options == {"RemoteIP", "RemoteQueue", "RemoteUser", "RemoteNotifier"}

None == [t |-> "None", s |-> <<>>]
Str(s) == [t |-> "str", s |-> s]

\* values an option can have in the global config; None: the option is absent
OptionValues(opt) ==
    CASE opt = "RemoteIP"       -> {None, Str(<<>>), Str(<<"i">>)}
      [] opt = "RemoteUser"     -> {None, Str(<<>>), Str(<<"u">>)}
      [] opt = "RemoteQueue"    -> {None, Str(<<>>), Str(<<"/", "q">>), Str(<<"/", "q", "/">>)}
      [] opt = "RemoteNotifier" -> {None, Str(<<>>), Str(<<"n">>), Str(<<"/", "n">>)}

\* a homework file on disk: it may not exist, may lack Job, or name a job
NoDefaults == [hasJob |-> FALSE, job |-> ""]
FileContents ==
    {[exists |-> FALSE, hasJob |-> FALSE, job |-> ""],
     [exists |-> TRUE,  hasJob |-> FALSE, job |-> ""]}
    \cup {[exists |-> TRUE, hasJob |-> TRUE, job |-> j] : j \in Jobs}

\* exit statuses of a child process as subprocess.call reports them
\* (negative: killed by a signal)
ReturnCodes == {0, 1, 255, -9}

ArgLists == UNION {[1..n -> Paths] : n \in 0..MaxArgs}

----------------------------------------------------------------------------
(* Messages *)

UsageMsg == "Usage: remote_check.py homework_config_file"
CopyFailedMsg == "Eroare la copierea temei pe masina de testare"
NotifyFailedMsg == "Nu am putut invoca programul de notificare"
SuccessMsg == "Tema a fost copiata cu succes"
Traceback(what) == "Traceback: " \o what

----------------------------------------------------------------------------
(* Pure helpers *)

\* truth value of a Python value, as `assert x` tests it
Truthy_NotNone(v) == v.t # "None"
Truthy(v) == v.t = "str" /\ v.s # <<>>

\* misc.get_option(config, job, option)
get_option(cfg, section, opt) ==
    IF section \in DOMAIN cfg THEN cfg[section][opt] ELSE None

\* '%s@%s' % (user, ip)
UserAtHost(user, ip) == user.s \o <<"@">> \o ip.s

\* '%s@%s:%s' % (user, ip, queue)
ScpTarget(user, ip, queue) == user.s \o <<"@">> \o ip.s \o <<":">> \o queue.s

\* os.path.join(a, b) on POSIX
PathJoin_Concat(a, b) == a \o <<"/">> \o b
PathJoin(a, b) ==
    IF b # <<>> /\ b[1] = "/" THEN b
    ELSE IF a = <<>> \/ a[Len(a)] = "/" THEN a \o b
    ELSE a \o <<"/">> \o b

\* `if return_code != 0` after scp / after ssh
ScpFailed_Positive(rc) == rc > 0
ScpFailed(rc) == rc # 0
SshFailed_Positive(rc) == rc > 0
SshFailed(rc) == rc # 0

Call(prog, args, raised, rc) ==
    [prog |-> prog, args |-> args, raised |-> raised, rc |-> rc]

----------------------------------------------------------------------------
Init ==
    /\ argv \in {<<ProgName>> \o a : a \in ArgLists}
    /\ fs \in [Paths -> FileContents]
    /\ globalIni \in [Sections -> {f \in [Options -> UNION {OptionValues(o) : o \in Options}] :
                                      \A o \in Options : f[o] \in OptionValues(o)}]
    /\ pc = "check_args"
    /\ config_file = ""
    /\ homework = NoDefaults
    /\ config = [s \in {} |-> None]
    /\ job = ""
    /\ remote_ip = None
    /\ remote_queue = None
    /\ remote_user = None
    /\ remote_notifier = None
    /\ return_code = 0
    /\ reads = <<>>
    /\ lookups = <<>>
    /\ calls = <<>>
    /\ stdout = <<>>
    /\ stderr = <<>>
    /\ exitCode = 0

\* sys.exit(code) after printing msg to standard error
ExitWith(msg, code) ==
    /\ stderr' = Append(stderr, msg)
    /\ exitCode' = code
    /\ pc' = "done"

\* an uncaught exception: the interpreter prints the traceback to standard
\* error and the process ends with status 1
Raise(what) == ExitWith(Traceback(what), 1)

\* l.17-19
CheckArgs_Stdout ==
    /\ pc = "check_args"
    /\ IF Len(argv) = 1
       THEN /\ stdout' = Append(stdout, UsageMsg)
            /\ exitCode' = 1
            /\ pc' = "done"
            /\ UNCHANGED stderr
       ELSE /\ pc' = "find_config"
            /\ UNCHANGED <<stdout, stderr, exitCode>>
    /\ UNCHANGED <<inputs, locals, reads, lookups, calls>>
CheckArgs ==
    /\ pc = "check_args"
    /\ IF Len(argv) = 1
       THEN ExitWith(UsageMsg, 1)
       ELSE /\ pc' = "find_config"
            /\ UNCHANGED <<stderr, exitCode>>
    /\ UNCHANGED <<inputs, locals, reads, lookups, calls, stdout>>

\* l.21
FindConfig ==
    /\ pc = "find_config"
    /\ config_file' = "vmchecker.ini"
    /\ pc' = "read_homework"
    /\ UNCHANGED <<inputs, homework, config, job, remotes, return_code,
                   reads, lookups, calls, stdout, stderr, exitCode>>

\* l.23-24: RawConfigParser.read skips a file it cannot open
ReadHomework ==
    /\ pc = "read_homework"
    /\ reads' = Append(reads, argv[2])
    /\ homework' = IF fs[argv[2]].exists
                   THEN [hasJob |-> fs[argv[2]].hasJob, job |-> fs[argv[2]].job]
                   ELSE NoDefaults
    /\ pc' = "read_config"
    /\ UNCHANGED <<inputs, config_file, config, job, remotes, return_code,
                   lookups, calls, stdout, stderr, exitCode>>

\* l.26-27
ReadConfig ==
    /\ pc = "read_config"
    /\ reads' = Append(reads, config_file)
    /\ config' = globalIni
    /\ pc' = "get_job"
    /\ UNCHANGED <<inputs, config_file, homework, job, remotes, return_code,
                   lookups, calls, stdout, stderr, exitCode>>

\* l.29: RawConfigParser.get('DEFAULT', 'Job') raises NoOptionError when the
\* file has no Job (or was not read)
GetJob_Default ==
    /\ pc = "get_job"
    /\ job' = homework.job
    /\ pc' = "get_ip"
    /\ UNCHANGED <<inputs, config_file, homework, config, remotes, return_code,
                   reads, lookups, calls, stdout, stderr, exitCode>>
GetJob ==
    /\ pc = "get_job"
    /\ IF homework.hasJob
       THEN /\ job' = homework.job
            /\ pc' = "get_ip"
            /\ UNCHANGED <<stderr, exitCode>>
       ELSE /\ Raise("NoOptionError: No option 'Job' in section: 'DEFAULT'")
            /\ UNCHANGED job
    /\ UNCHANGED <<inputs, config_file, homework, config, remotes, return_code,
                   reads, lookups, calls, stdout>>

\* the `assert value, message` that follows each lookup
AssertOption(value, message, nextpc) ==
    IF Truthy(value)
    THEN /\ pc' = nextpc
         /\ UNCHANGED <<stderr, exitCode>>
    ELSE Raise("AssertionError: " \o message)

\* l.31-32
GetRemoteIP ==
    /\ pc = "get_ip"
    /\ lookups' = Append(lookups, "RemoteIP")
    /\ remote_ip' = get_option(config, job, "RemoteIP")
    /\ AssertOption(remote_ip', "No ip for remote machine", "get_queue")
    /\ UNCHANGED <<inputs, config_file, homework, config, job,
                   remote_queue, remote_user, remote_notifier, return_code,
                   reads, calls, stdout>>

\* l.34-35
GetRemoteQueue ==
    /\ pc = "get_queue"
    /\ lookups' = Append(lookups, "RemoteQueue")
    /\ remote_queue' = get_option(config, job, "RemoteQueue")
    /\ AssertOption(remote_queue', "No queue on remote machine", "get_user")
    /\ UNCHANGED <<inputs, config_file, homework, config, job,
                   remote_ip, remote_user, remote_notifier, return_code,
                   reads, calls, stdout>>

\* l.37-38
GetRemoteUser ==
    /\ pc = "get_user"
    /\ lookups' = Append(lookups, "RemoteUser")
    /\ remote_user' = get_option(config, job, "RemoteUser")
    /\ AssertOption(remote_user', "No remote user supplied", "get_notifier")
    /\ UNCHANGED <<inputs, config_file, homework, config, job,
                   remote_ip, remote_queue, remote_notifier, return_code,
                   reads, calls, stdout>>

\* l.40-41
GetRemoteNotifier ==
    /\ pc = "get_notifier"
    /\ lookups' = Append(lookups, "RemoteNotifier")
    /\ remote_notifier' = get_option(config, job, "RemoteNotifier")
    /\ AssertOption(remote_notifier', "No notifier supplied", "scp")
    /\ UNCHANGED <<inputs, config_file, homework, config, job,
                   remote_ip, remote_queue, remote_user, return_code,
                   reads, calls, stdout>>

\* l.48-49
OnCopyFailed_Retry ==
    IF Len(calls) < 2
    THEN /\ stderr' = Append(stderr, CopyFailedMsg)
         /\ pc' = "scp"
         /\ UNCHANGED exitCode
    ELSE ExitWith(CopyFailedMsg, 1)
OnCopyFailed == ExitWith(CopyFailedMsg, 1)

\* l.56-57
OnNotifyFailed_NoExit ==
    /\ stderr' = Append(stderr, NotifyFailedMsg)
    /\ pc' = "success"
    /\ UNCHANGED exitCode
OnNotifyFailed == ExitWith(NotifyFailedMsg, 1)

\* l.43-49: subprocess.call blocks until scp ends and returns its status, or
\* raises OSError when the program cannot be started
CallScp ==
    /\ pc = "scp"
    /\ LET args == <<argv[2], ScpTarget(remote_user, remote_ip, remote_queue)>>
       IN \/ /\ calls' = Append(calls, Call("scp", args, TRUE, 0))
             /\ Raise("OSError: scp")
             /\ UNCHANGED return_code
          \/ \E rc \in ReturnCodes :
                /\ calls' = Append(calls, Call("scp", args, FALSE, rc))
                /\ return_code' = rc
                /\ IF ScpFailed(rc)
                   THEN OnCopyFailed
                   ELSE /\ pc' = "ssh"
                        /\ UNCHANGED <<stderr, exitCode>>
    /\ UNCHANGED <<inputs, config_file, homework, config, job, remotes,
                   reads, lookups, stdout>>

\* l.51-57
CallSsh ==
    /\ pc = "ssh"
    /\ LET args == <<UserAtHost(remote_user, remote_ip),
                     PathJoin(remote_queue.s, remote_notifier.s)>>
       IN \/ /\ calls' = Append(calls, Call("ssh", args, TRUE, 0))
             /\ Raise("OSError: ssh")
             /\ UNCHANGED return_code
          \/ \E rc \in ReturnCodes :
                /\ calls' = Append(calls, Call("ssh", args, FALSE, rc))
                /\ return_code' = rc
                /\ IF SshFailed(rc)
                   THEN OnNotifyFailed
                   ELSE /\ pc' = "success"
                        /\ UNCHANGED <<stderr, exitCode>>
    /\ UNCHANGED <<inputs, config_file, homework, config, job, remotes,
                   reads, lookups, stdout>>

\* l.59-63: the message goes to standard error; main() returns and the
\* interpreter ends with status 0
PrintSuccess_Stdout ==
    /\ pc = "success"
    /\ stdout' = Append(stdout, SuccessMsg)
    /\ exitCode' = 0
    /\ pc' = "done"
    /\ UNCHANGED <<inputs, locals, reads, lookups, calls, stderr>>
PrintSuccess ==
    /\ pc = "success"
    /\ stderr' = Append(stderr, SuccessMsg)
    /\ exitCode' = 0
    /\ pc' = "done"
    /\ UNCHANGED <<inputs, locals, reads, lookups, calls, stdout>>

Next ==
    \/ CheckArgs
    \/ FindConfig
    \/ ReadHomework
    \/ ReadConfig
    \/ GetJob
    \/ GetRemoteIP
    \/ GetRemoteQueue
    \/ GetRemoteUser
    \/ GetRemoteNotifier
    \/ CallScp
    \/ CallSsh
    \/ PrintSuccess

Spec == Init /\ [][Next]_vars

----------------------------------------------------------------------------
(* Vocabulary of the properties *)

NArgs == Len(argv) - 1
Done == pc = "done"

Count(seq, x) == Cardinality({i \in DOMAIN seq : seq[i] = x})
ScpCalls == {i \in DOMAIN calls : calls[i].prog = "scp"}
SshCalls == {i \in DOMAIN calls : calls[i].prog = "ssh"}
ReturnedZero(i) == ~calls[i].raised /\ calls[i].rc = 0
ReturnedNonZero(i) == ~calls[i].raised /\ calls[i].rc # 0

\* scp was invoked and returned 0, then ssh was invoked and returned 0
BothSucceeded ==
    /\ Len(calls) = 2
    /\ calls[1].prog = "scp" /\ ReturnedZero(1)
    /\ calls[2].prog = "ssh" /\ ReturnedZero(2)

\* the homework file named on the command line, as it is on disk
HomeworkOnDisk == fs[argv[2]]
HasJobOnDisk == NArgs >= 1 /\ HomeworkOnDisk.exists /\ HomeworkOnDisk.hasJob
\* the option as the global config on disk gives it for the homework's job
OnDisk(opt) == get_option(globalIni, HomeworkOnDisk.job, opt)
Lacks(opt) == OnDisk(opt).t = "None" \/ OnDisk(opt).s = <<>>

----------------------------------------------------------------------------
(* Properties *)

\* C1: once scp has returned a non-zero status the run is over with exit
\* code 1, and no ssh call is ever made in it.
C1_CopyFailureIsFatal ==
    (\E i \in ScpCalls : ReturnedNonZero(i)) =>
        /\ Done
        /\ exitCode = 1
        /\ SshCalls = {}
C1_Witness ==
    /\ Done
    /\ Len(calls) = 1
    /\ calls[1].prog = "scp" /\ ~calls[1].raised /\ calls[1].rc = -9

\* C2: when scp and then ssh have both returned 0, the run ends with exit
\* code 0 and the success message is written exactly once, to standard error
\* and never to standard output.
C2_SuccessReported ==
    BothSucceeded =>
        /\ Count(stdout, SuccessMsg) = 0
        /\ \/ pc = "success" /\ Count(stderr, SuccessMsg) = 0
           \/ Done /\ exitCode = 0 /\ Count(stderr, SuccessMsg) = 1
C2_Witness ==
    /\ BothSucceeded
    /\ Done
    /\ stderr = <<SuccessMsg>>

\* C3: when scp returned 0 and ssh returned non-zero, the run is over with
\* exit code 1, the notifier-failure message was written and the success
\* message was not, and the two calls are the only external calls made.
C3_NotifyFailureIsFatal ==
    (/\ \E i \in ScpCalls : ReturnedZero(i)
     /\ \E i \in SshCalls : ReturnedNonZero(i)) =>
        /\ Done
        /\ exitCode = 1
        /\ Count(stderr, NotifyFailedMsg) = 1
        /\ Count(stderr, SuccessMsg) = 0
        /\ Count(stdout, SuccessMsg) = 0
        /\ Len(calls) = 2
        /\ calls[1].prog = "scp" /\ calls[2].prog = "ssh"
C3_Witness ==
    /\ Done
    /\ Len(calls) = 2
    /\ calls[1].prog = "scp" /\ ReturnedZero(1)
    /\ calls[2].prog = "ssh" /\ ~calls[2].raised /\ calls[2].rc = -9

\* C4: when the homework names a job and the global config gives no value,
\* or an empty one, for one of the four required options of that job, no
\* external process is ever invoked and a finished run has failed.
C4_MissingOptionNoCall ==
    (HasJobOnDisk /\ \E o \in Options : Lacks(o)) =>
        /\ calls = <<>>
        /\ pc \notin {"scp", "ssh", "success"}
        /\ Done => exitCode = 1 /\ stdout = <<>>
C4_Witness ==
    /\ HasJobOnDisk
    /\ Done
    /\ Lacks("RemoteNotifier") /\ OnDisk("RemoteNotifier").t = "str"
    /\ \A o \in Options \ {"RemoteNotifier"} : ~Lacks(o)
    /\ lookups = <<"RemoteIP", "RemoteQueue", "RemoteUser", "RemoteNotifier">>

\* C5: when the homework file has no Job key, no option of the global config
\* is ever looked up, no external process is ever invoked and a finished run
\* has failed.
C5_MissingJobNoLookup ==
    (NArgs >= 1 /\ ~HomeworkOnDisk.hasJob) =>
        /\ lookups = <<>>
        /\ calls = <<>>
        /\ Done => exitCode = 1
C5_Witness ==
    /\ NArgs >= 1
    /\ HomeworkOnDisk.exists /\ ~HomeworkOnDisk.hasJob
    /\ Done
    /\ reads = <<argv[2], "vmchecker.ini">>

\* C6: with no command-line argument the run reads no configuration file and
\* invokes no external process, and ends with exit code 1 after printing only
\* the usage line, to standard error.
C6_NoArgsUsage ==
    NArgs = 0 =>
        /\ reads = <<>>
        /\ calls = <<>>
        /\ lookups = <<>>
        /\ \/ pc = "check_args" /\ stderr = <<>> /\ stdout = <<>>
           \/ Done /\ exitCode = 1 /\ stderr = <<UsageMsg>> /\ stdout = <<>>
C6_Witness ==
    /\ NArgs = 0
    /\ Done
    /\ stderr = <<UsageMsg>>

\* C7: for every number of arguments other than exactly one, a finished run
\* has printed the usage line, has exit code 1 and has invoked no external
\* process.
C7_WrongArgCountIsUsageError ==
    (NArgs # 1 /\ Done) =>
        /\ Count(stderr, UsageMsg) = 1
        /\ exitCode = 1
        /\ calls = <<>>

\* the arguments of the scp call, from the command line and the config on disk
ExpectedScpArgs ==
    <<argv[2],
      OnDisk("RemoteUser").s \o <<"@">> \o OnDisk("RemoteIP").s
          \o <<":">> \o OnDisk("RemoteQueue").s>>
ExpectedSshHost == OnDisk("RemoteUser").s \o <<"@">> \o OnDisk("RemoteIP").s
StartsWithSlash(str) == str # <<>> /\ Head(str) = "/"
EndsWithSlash(str) == str # <<>> /\ str[Len(str)] = "/"

\* C8 (as stated): the scp arguments are [path, user@ip:queue] and the ssh
\* arguments are [user@ip, queue + '/' + notifier] for all non-empty values.
C8_SshCommandIsQueueSlashNotifier ==
    \A i \in DOMAIN calls :
        /\ calls[i].prog = "scp" => calls[i].args = ExpectedScpArgs
        /\ calls[i].prog = "ssh" =>
              calls[i].args = <<ExpectedSshHost,
                                OnDisk("RemoteQueue").s \o <<"/">>
                                    \o OnDisk("RemoteNotifier").s>>

\* C8 (amended): the scp arguments are [path, user@ip:queue]; the ssh
\* arguments are [user@ip, command] with the same user and ip, where command
\* is the notifier alone when it begins with '/', queue + notifier when the
\* queue ends with '/', and queue + '/' + notifier otherwise.
C8_SshCommandIsJoinedPath ==
    \A i \in DOMAIN calls :
        /\ calls[i].prog = "scp" => calls[i].args = ExpectedScpArgs
        /\ calls[i].prog = "ssh" =>
              /\ Len(calls[i].args) = 2
              /\ calls[i].args[1] = ExpectedSshHost
              /\ LET q == OnDisk("RemoteQueue").s
                     n == OnDisk("RemoteNotifier").s
                     command == calls[i].args[2]
                 IN /\ StartsWithSlash(n) => command = n
                    /\ ~StartsWithSlash(n) /\ EndsWithSlash(q) =>
                          command = q \o n
                    /\ ~StartsWithSlash(n) /\ ~EndsWithSlash(q) =>
                          command = q \o <<"/">> \o n
C8_Witness ==
    /\ Len(calls) = 2
    /\ calls[2].prog = "ssh"
    /\ calls[1].args = <<"hw.ini", <<"u", "@", "i", ":", "/", "q">>>>
    /\ calls[2].args = <<<<"u", "@", "i">>, <<"/", "q", "/", "n">>>>

\* C9: a finished run has exit code 0 or 1, and 0 exactly when scp was
\* invoked and returned 0 and ssh was then invoked and returned 0.
C9_ExitCode ==
    Done =>
        /\ exitCode \in {0, 1}
        /\ exitCode = 0 <=> BothSucceeded
C9_Witness ==
    /\ Done
    /\ exitCode = 1
    /\ Len(calls) = 2
    /\ ReturnedZero(1)
    /\ ReturnedNonZero(2)

\* C10: scp and ssh are each invoked at most once, every ssh call comes after
\* an scp call that returned 0, and a call that did not return 0 is the last
\* external call of the run.
C10_NoRetries ==
    /\ Cardinality(ScpCalls) <= 1
    /\ Cardinality(SshCalls) <= 1
    /\ \A i \in SshCalls : \E j \in ScpCalls : j < i /\ ReturnedZero(j)
    /\ \A i \in DOMAIN calls : ~ReturnedZero(i) => i = Len(calls) /\ Done
C10_Witness ==
    /\ Done
    /\ Len(calls) = 1
    /\ calls[1].prog = "scp"
    /\ calls[1].raised

====
